---- MODULE Spec2Model ----
(***************************************************************************)
(* Document ingestion pipeline and hybrid retrieval of the RAG backend.    *)
(*                                                                         *)
(* Spec        the upload routes, the background task and the steps of     *)
(*             DocumentProcessor.process_document_sync, interleaved at the *)
(*             granularity of one database statement / backend call.       *)
(* SpecSearch  RetrievalService.hybrid_search as a function of the corpus  *)
(*             scores, the settings and the call's arguments.              *)
(* SpecScope   hybrid_search over documents of several owners and         *)
(*             statuses.                                                   *)
(* SpecScore   score normalisation and the merge on their own.             *)
(* SpecEmbed   BedrockClient.generate_embeddings, one backend call a step. *)
(* SpecDelete  Spec with delete_document interleaved.                      *)
(* SpecDeleteRun  delete_document interleaved with one background task.    *)
(* SpecExtract DocumentProcessor.extract_text.                             *)
(* SpecChunk   DocumentProcessor.chunk_text on texts of a few characters.  *)
(* SpecProcessor  the chunking step of process_document_sync under a       *)
(*             configured DocumentProcessor.                               *)
(***************************************************************************)
EXTENDS Integers, Sequences, FiniteSets, TLC

\* ------------------------------------------------------------------ bounds
\* Largest number of passages the chunker emits for one uploaded file.
MaxChunks == 3
\* Background tasks that may be scheduled for one document id.
MaxRuns == 2
\* Texts per embedding backend call.  The code caps a batch at 96 texts
\* (bedrock_client.py:138); the cap is scaled down so that a document of
\* MaxChunks passages needs more than one batch.
BatchCap == 2
\* Longest list of texts generate_embeddings is called with on its own.
MaxTexts == 4
\* Longest text chunk_text is called with, in characters.
MaxTextLen == 5
\* The sizes built into chunk_text, scaled down to texts of MaxTextLen
\* characters: min_chunk_size (300 in the code), the default of chunk_size
\* (1000) and the default of overlap (100).
MinChunkSize == 2
DefaultChunkSize == 4
DefaultOverlap == 1

\* Chunks of the owner's completed documents that a search ranks.
NumChunks == 5
\* Chunk ids a candidate set handed to the normalisation and the merge is
\* drawn from.
NumCandidates == 3
\* Largest top_k a search is called with.
MaxTopK == 2

Docs == {"d1"}
Runs == 1..MaxRuns
NULL == "null"

\* str(e) of what a step can raise, named after the step that raised it.
StepErrors == {"extract", "blank", "chunk", "embed", "bm25", "mismatch", "save"}
SetupError == "setup"

VARIABLES
    status,         \* Document.status, "absent" before the row is created
    error_message,  \* Document.error_message
    file_path,      \* Document.file_path ("" until the locator is known)
    content,        \* number of passages the stored file yields (0: no text)
    chunks,         \* rows of document_chunks
    run,            \* the background tasks: position and locals of each
    hist,           \* committed values of Document.status, oldest first
    blob,           \* the stored file: "none", "stored" or "removed"
    deletion        \* the delete_document call on the document, if any

deleteVars == <<blob, deletion>>

ingestVars == <<status, error_message, file_path, content, chunks, run, hist,
                blob, deletion>>

\* ------------------------------------------------------- search variables
VARIABLES
    settings,       \* SEMANTIC_SEARCH_RATIO, RELEVANCE_THRESHOLD (tenths)
    corpus,         \* per chunk: cosine similarity and ts_rank for the query
    call,           \* arguments and embedding outcome of the last call
    result          \* what hybrid_search returned (or "raised")

searchVars == <<settings, corpus, call, result>>

\* ---------------------------------------- variables of the text functions
VARIABLES
    gen,            \* a call of BedrockClient.generate_embeddings
    ext,            \* a call of DocumentProcessor.extract_text
    chk             \* a call of DocumentProcessor.chunk_text

textVars == <<gen, ext, chk>>

vars == <<status, error_message, file_path, content, chunks, run, hist,
          blob, deletion, settings, corpus, call, result, gen, ext, chk>>

\* ---------------------------------------------------------------- helpers
Min(a, b) == IF a < b THEN a ELSE b

Range(s) == {s[i] : i \in 1..Len(s)}

\* <<1, ..., n>>: the passages in the order the chunker emits them.
Passages(n) == [i \in 1..n |-> i]

\* ------------------------------------------------------- ingestion: state
RunInit ==
    [pc |-> "idle", chunks |-> <<>>, embeddings |-> <<>>, bm25 |-> <<>>,
     err |-> NULL, outcome |-> "none", writes |-> <<>>]

\* delete_document has not been called.
NoDeletion == [pc |-> "none", outcome |-> "none"]

IngestInit ==
    /\ status = [d \in Docs |-> "absent"]
    /\ error_message = [d \in Docs |-> NULL]
    /\ file_path = [d \in Docs |-> ""]
    /\ content = [d \in Docs |-> 0]
    /\ chunks = {}
    /\ run = [d \in Docs |-> [r \in Runs |-> RunInit]]
    /\ hist = [d \in Docs |-> <<>>]
    /\ blob = [d \in Docs |-> "none"]
    /\ deletion = [d \in Docs |-> NoDeletion]

\* The first task slot that is not in use, 0 when all are taken.
FreeRun(d) ==
    IF \E r \in Runs : run[d][r].pc = "idle"
    THEN CHOOSE r \in Runs : /\ run[d][r].pc = "idle"
                             /\ \A q \in Runs : run[d][q].pc = "idle" => r <= q
    ELSE 0

\* background_tasks.add_task(process_uploaded_document, ...)
AddTask(d, r) == [run EXCEPT ![d][r].pc = "scheduled"]

\* --------------------------------------------------- ingestion: the routes
\* POST /upload/local: store the file, create the Document row with status
\* "pending" and schedule the background task in the same request.
upload_local_file(d) ==
    /\ status[d] = "absent"
    /\ \E n \in 0..MaxChunks :
        /\ content' = [content EXCEPT ![d] = n]
        /\ status' = [status EXCEPT ![d] = "pending"]
        /\ file_path' = [file_path EXCEPT ![d] = "local"]
        /\ hist' = [hist EXCEPT ![d] = <<"pending">>]
        /\ run' = AddTask(d, 1)
    /\ blob' = [blob EXCEPT ![d] = "stored"]
    /\ UNCHANGED <<searchVars, textVars, deletion>>
    /\ UNCHANGED <<error_message, chunks>>

\* POST /upload/presigned-url: create the Document row with status "pending"
\* and an empty locator, then record the S3 locator, under which the client
\* stores the object; when the URL cannot be generated the row stays behind
\* with the empty locator.
get_presigned_upload_url(d) ==
    /\ status[d] = "absent"
    /\ \E n \in 0..MaxChunks, signed \in BOOLEAN :
        /\ content' = [content EXCEPT ![d] = n]
        /\ status' = [status EXCEPT ![d] = "pending"]
        /\ file_path' = [file_path EXCEPT ![d] = IF signed THEN "s3" ELSE ""]
        /\ hist' = [hist EXCEPT ![d] = <<"pending">>]
        /\ blob' = [blob EXCEPT ![d] = IF signed THEN "stored" ELSE "none"]
    /\ UNCHANGED <<searchVars, textVars, deletion>>
    /\ UNCHANGED <<error_message, chunks, run>>

\* POST /upload/process-document: the document must exist, be "pending" and
\* have a locator; then a background task is scheduled.  The status is left
\* as it is: the task writes "processing" when it gets that far.
trigger_document_processing(d) ==
    /\ status[d] = "pending"
    /\ file_path[d] # ""
    /\ FreeRun(d) # 0
    /\ run' = AddTask(d, FreeRun(d))
    /\ UNCHANGED <<searchVars, textVars, deleteVars>>
    /\ UNCHANGED <<status, error_message, file_path, content, chunks, hist>>

\* ------------------------------------------- ingestion: the status writes
\* The documents table holds a row for d.
RowExists(d) == status[d] \notin {"absent", "deleted"}

\* DocumentProcessor._update_document_status: one UPDATE and a commit.  When
\* the storage layer raises (ok = FALSE) the session is rolled back, the
\* error is logged and nothing is re-raised.  error_message is part of the
\* UPDATE only when a message is given.
_update_document_status(d, s, msg, ok) ==
    /\ status' = IF ok /\ RowExists(d)
                 THEN [status EXCEPT ![d] = s] ELSE status
    /\ error_message' = IF ok /\ RowExists(d) /\ msg # NULL
                        THEN [error_message EXCEPT ![d] = msg]
                        ELSE error_message
    /\ hist' = IF ok /\ RowExists(d)
               THEN [hist EXCEPT ![d] = Append(@, s)] ELSE hist

\* The write as the run's log remembers it: the value and whether the
\* storage layer accepted it.
Wrote(rec, s, ok) == [rec EXCEPT !.writes = Append(@, [s |-> s, ok |-> ok])]

\* ------------------------------------- ingestion: process_uploaded_document
\* Locate the file (download it from S3, or check that the local path
\* exists) and open a database session.  Any exception here is handled by
\* the task itself, outside process_document_sync.
task_setup(d, r) ==
    /\ run[d][r].pc = "scheduled"
    /\ \E found \in BOOLEAN :
        run' = [run EXCEPT ![d][r] =
                  IF found THEN [@ EXCEPT !.pc = "begin"]
                  ELSE [@ EXCEPT !.pc = "task_except", !.err = SetupError]]
    /\ UNCHANGED <<searchVars, textVars, deleteVars>>
    /\ UNCHANGED <<status, error_message, file_path, content, chunks, hist>>

\* The task's own except branch: a new session, document.status = "failed",
\* document.error_message = str(e), commit; a failure of this update is
\* logged and dropped.
task_except(d, r) ==
    /\ run[d][r].pc = "task_except"
    /\ \E ok \in BOOLEAN :
        /\ _update_document_status(d, "failed", run[d][r].err, ok)
        /\ run' = [run EXCEPT ![d][r] =
                     [Wrote(@, "failed", ok) EXCEPT !.pc = "done"]]
    /\ UNCHANGED <<searchVars, textVars, deleteVars>>
    /\ UNCHANGED <<file_path, content, chunks>>

\* --------------------------------------- ingestion: process_document_sync
\* A pipeline that starts extracting without announcing "processing".
sync_begin_unannounced(d, r) ==
    /\ run[d][r].pc = "begin"
    /\ run' = [run EXCEPT ![d][r].pc = "extract"]
    /\ UNCHANGED <<searchVars, textVars, deleteVars>>
    /\ UNCHANGED <<status, error_message, file_path, content, chunks, hist>>

\* self._update_document_status(document_id, "processing")
sync_begin(d, r) ==
    /\ run[d][r].pc = "begin"
    /\ \E ok \in BOOLEAN :
        /\ _update_document_status(d, "processing", NULL, ok)
        /\ run' = [run EXCEPT ![d][r] =
                     [Wrote(@, "processing", ok) EXCEPT !.pc = "extract"]]
    /\ UNCHANGED <<searchVars, textVars, deleteVars>>
    /\ UNCHANGED <<file_path, content, chunks>>

\* An extraction step without the test for empty or blank text.
sync_extract_unchecked(d, r) ==
    /\ run[d][r].pc = "extract"
    /\ \E raised \in BOOLEAN :
        run' = [run EXCEPT ![d][r] =
                  IF raised THEN [@ EXCEPT !.pc = "except", !.err = "extract"]
                  ELSE [@ EXCEPT !.pc = "chunk"]]
    /\ UNCHANGED <<searchVars, textVars, deleteVars>>
    /\ UNCHANGED <<status, error_message, file_path, content, chunks, hist>>

\* Step 1: extract_text raises, or returns the text; text that is empty or
\* blank raises ValueError("No text content extracted from document").
sync_extract(d, r) ==
    /\ run[d][r].pc = "extract"
    /\ \E raised \in BOOLEAN :
        run' = [run EXCEPT ![d][r] =
                  IF raised THEN [@ EXCEPT !.pc = "except", !.err = "extract"]
                  ELSE IF content[d] = 0
                       THEN [@ EXCEPT !.pc = "except", !.err = "blank"]
                       ELSE [@ EXCEPT !.pc = "chunk"]]
    /\ UNCHANGED <<searchVars, textVars, deleteVars>>
    /\ UNCHANGED <<status, error_message, file_path, content, chunks, hist>>

\* Step 2: chunk_text returns the passages in text order.
sync_chunk(d, r) ==
    /\ run[d][r].pc = "chunk"
    /\ \E raised \in BOOLEAN :
        run' = [run EXCEPT ![d][r] =
                  IF raised THEN [@ EXCEPT !.pc = "except", !.err = "chunk"]
                  ELSE [@ EXCEPT !.pc = "embed",
                                 !.chunks = Passages(content[d])]]
    /\ UNCHANGED <<searchVars, textVars, deleteVars>>
    /\ UNCHANGED <<status, error_message, file_path, content, chunks, hist>>

\* The vector the backend returns for a text, and the cleaned text the
\* lexical preparation returns for it.
Embedding(p) == <<"vec", p>>
Bm25Text(p) == <<"clean", p>>

\* A batch size that is not capped.
BatchSizeUncapped(batch_size) == batch_size

\* BedrockClient.generate_embeddings: batch_size = min(batch_size, 96).
BatchSize(batch_size) == Min(batch_size, BatchCap)

\* A slice that always starts at the first text.
BatchFromStart(texts, i, batch_size) ==
    SubSeq(texts, 1, Min(batch_size, Len(texts)))

\* The batch that starts after the first i texts: texts[i : i + batch_size].
Batch(texts, i, batch_size) ==
    SubSeq(texts, i + 1, Min(i + batch_size, Len(texts)))

\* Step 3: one iteration of the batch loop of generate_embeddings, called
\* with the default batch size.  The backend call either raises, which
\* ends the loop and the step, or returns one vector per text of the batch,
\* which all_embeddings.extend() appends; after the last batch the list is
\* returned.
sync_embed(d, r) ==
    /\ run[d][r].pc = "embed"
    /\ LET rec == run[d][r]
           i == Len(rec.embeddings)
           batch == Batch(rec.chunks, i, BatchSize(BatchCap))
           all == rec.embeddings \o [k \in 1..Len(batch) |-> Embedding(batch[k])]
       IN \E raised \in BOOLEAN :
            run' = [run EXCEPT ![d][r] =
                      IF raised
                      THEN [@ EXCEPT !.pc = "except", !.err = "embed"]
                      ELSE [@ EXCEPT !.embeddings = all,
                                     !.pc = IF Len(all) >= Len(rec.chunks)
                                            THEN "bm25" ELSE "embed"]]
    /\ UNCHANGED <<searchVars, textVars, deleteVars>>
    /\ UNCHANGED <<status, error_message, file_path, content, chunks, hist>>

\* Step 4: create_bm25_indexes cleans every chunk, in order.
sync_bm25(d, r) ==
    /\ run[d][r].pc = "bm25"
    /\ LET texts == run[d][r].chunks
       IN \E raised \in BOOLEAN :
            run' = [run EXCEPT ![d][r] =
                      IF raised THEN [@ EXCEPT !.pc = "except", !.err = "bm25"]
                      ELSE [@ EXCEPT !.pc = "save",
                                     !.bm25 = [k \in 1..Len(texts) |->
                                                  Bm25Text(texts[k])]]]
    /\ UNCHANGED <<searchVars, textVars, deleteVars>>
    /\ UNCHANGED <<status, error_message, file_path, content, chunks, hist>>

\* The DocumentChunk rows save_chunks_to_db builds: enumerate() numbers the
\* zipped lists from 0.  The row id is a fresh uuid, here the run and the
\* position.  The constructor is given no content_tsvector and bm25_text is
\* not used: the column is inserted as NULL.
ChunkObjects(d, r, texts, embeddings) ==
    {[id |-> <<d, r, k>>, document_id |-> d, chunk_index |-> k - 1,
      content |-> texts[k], embedding |-> embeddings[k],
      content_tsvector |-> NULL] : k \in 1..Len(texts)}

\* A bulk insert into a table whose document_id has no foreign key: the rows
\* are inserted whether or not the documents row is still there.
sync_save_unreferenced(d, r) ==
    /\ run[d][r].pc = "save"
    /\ chunks' = chunks \cup
            ChunkObjects(d, r, run[d][r].chunks, run[d][r].embeddings)
    /\ run' = [run EXCEPT ![d][r].pc = "complete"]
    /\ UNCHANGED <<searchVars, textVars, deleteVars>>
    /\ UNCHANGED <<status, error_message, file_path, content, hist>>

\* Step 5: save_chunks_to_db.  Lists of different lengths raise ValueError;
\* otherwise add_all() and one commit insert every row, or the storage
\* layer raises (as it does for the foreign key of a document that has been
\* deleted), the session is rolled back and the error is re-raised.
sync_save(d, r) ==
    /\ run[d][r].pc = "save"
    /\ LET rec == run[d][r]
           same == /\ Len(rec.chunks) = Len(rec.embeddings)
                   /\ Len(rec.embeddings) = Len(rec.bm25)
       IN \E ok \in BOOLEAN :
            IF same /\ ok /\ RowExists(d)
            THEN /\ chunks' = chunks \cup
                        ChunkObjects(d, r, rec.chunks, rec.embeddings)
                 /\ run' = [run EXCEPT ![d][r].pc = "complete"]
            ELSE /\ chunks' = chunks
                 /\ run' = [run EXCEPT ![d][r].pc = "except",
                                       ![d][r].err = IF same THEN "save"
                                                     ELSE "mismatch"]
    /\ UNCHANGED <<searchVars, textVars, deleteVars>>
    /\ UNCHANGED <<status, error_message, file_path, content, hist>>

\* self._update_document_status(document_id, "completed") and the return of
\* {"status": "success", ...}.
sync_complete(d, r) ==
    /\ run[d][r].pc = "complete"
    /\ \E ok \in BOOLEAN :
        /\ _update_document_status(d, "completed", NULL, ok)
        /\ run' = [run EXCEPT ![d][r] =
                     [Wrote(@, "completed", ok) EXCEPT !.pc = "done",
                                                      !.outcome = "success"]]
    /\ UNCHANGED <<searchVars, textVars, deleteVars>>
    /\ UNCHANGED <<file_path, content, chunks>>

\* except Exception as e: _update_document_status(document_id, "failed",
\* error_message=str(e)) and the return of {"status": "failed", "error": ...}.
sync_except(d, r) ==
    /\ run[d][r].pc = "except"
    /\ \E ok \in BOOLEAN :
        /\ _update_document_status(d, "failed", run[d][r].err, ok)
        /\ run' = [run EXCEPT ![d][r] =
                     [Wrote(@, "failed", ok) EXCEPT !.pc = "done",
                                                   !.outcome = "failed"]]
    /\ UNCHANGED <<searchVars, textVars, deleteVars>>
    /\ UNCHANGED <<file_path, content, chunks>>

\* ------------------------------------------------ ingestion: specification
NoCall == [top_k |-> 0, user_id |-> "none",
           semantic_ratio |-> [given |-> FALSE, value |-> 0],
           embedding |-> "none", error |-> NULL]
NoResult == [raised |-> FALSE, items |-> <<>>]

SearchIdle ==
    /\ settings = [SEMANTIC_SEARCH_RATIO |-> 0, RELEVANCE_THRESHOLD |-> 0]
    /\ corpus = <<>>
    /\ call = NoCall
    /\ result = NoResult

\* No text function has been called.
NoGen == [pc |-> "idle", texts |-> <<>>, batch_size |-> 0, i |-> 0,
          all_embeddings |-> <<>>, calls |-> <<>>, delays |-> 0]
NoExtract == [pc |-> "idle", file_type |-> "", exists |-> FALSE,
              parts |-> <<>>, io |-> <<>>, outcome |-> "none", text |-> <<>>]
NoChunking == [pc |-> "idle", text |-> <<>>, chunk_size |-> 0, overlap |-> 0,
               chunks |-> <<>>]

TextIdle ==
    /\ gen = NoGen
    /\ ext = NoExtract
    /\ chk = NoChunking

Init == IngestInit /\ SearchIdle /\ TextIdle

Next ==
    \E d \in Docs :
        \/ upload_local_file(d)
        \/ get_presigned_upload_url(d)
        \/ trigger_document_processing(d)
        \/ \E r \in Runs :
            \/ task_setup(d, r)
            \/ task_except(d, r)
            \/ sync_begin(d, r)
            \/ sync_extract(d, r)
            \/ sync_chunk(d, r)
            \/ sync_embed(d, r)
            \/ sync_bm25(d, r)
            \/ sync_save(d, r)
            \/ sync_complete(d, r)
            \/ sync_except(d, r)

Spec == Init /\ [][Next]_vars

\* ------------------------------------------------ ingestion: delete_document
\* delete_document(db, document_id, user_id), first half: select the
\* Document of this owner (none: return False); then, when file_path is not
\* empty and names an existing local file, os.remove it, a failure being
\* logged and dropped.  An S3 locator is not a local path: nothing is
\* removed for it.
delete_document_file(d) ==
    /\ deletion[d].pc = "none"
    /\ status[d] # "absent"
    /\ \E owned \in BOOLEAN, removed \in BOOLEAN :
        IF ~(owned /\ RowExists(d))
        THEN /\ deletion' = [deletion EXCEPT ![d] =
                                [pc |-> "done", outcome |-> "false"]]
             /\ blob' = blob
        ELSE /\ deletion' = [deletion EXCEPT ![d].pc = "row"]
             /\ blob' = IF file_path[d] = "local" /\ blob[d] = "stored" /\ removed
                        THEN [blob EXCEPT ![d] = "removed"] ELSE blob
    /\ UNCHANGED <<status, error_message, file_path, content, chunks, run, hist>>
    /\ UNCHANGED <<searchVars, textVars>>

\* delete_document, second half: DELETE FROM documents and commit, the
\* foreign key of document_chunks (ondelete CASCADE) deleting the chunks
\* with it, and return True; when the storage layer raises, the session is
\* rolled back and the error is re-raised.
delete_document_row(d) ==
    /\ deletion[d].pc = "row"
    /\ \E ok \in BOOLEAN :
        IF ok
        THEN /\ status' = [status EXCEPT ![d] = "deleted"]
             /\ chunks' = {c \in chunks : c.document_id # d}
             /\ deletion' = [deletion EXCEPT ![d] =
                                [pc |-> "done", outcome |-> "true"]]
        ELSE /\ UNCHANGED <<status, chunks>>
             /\ deletion' = [deletion EXCEPT ![d] =
                                [pc |-> "done", outcome |-> "raised"]]
    /\ UNCHANGED <<error_message, file_path, content, run, hist, blob>>
    /\ UNCHANGED <<searchVars, textVars>>

NextDelete ==
    \/ Next
    \/ \E d \in Docs : delete_document_file(d)
    \/ \E d \in Docs : delete_document_row(d)

SpecDelete == Init /\ [][NextDelete]_vars

\* delete_document interleaved with the steps of one background task: the
\* routes, the task that runs first and the two halves of the deletion.
NextDeleteRun ==
    \E d \in Docs :
        \/ upload_local_file(d)
        \/ get_presigned_upload_url(d)
        \/ trigger_document_processing(d)
        \/ task_setup(d, 1)
        \/ task_except(d, 1)
        \/ sync_begin(d, 1)
        \/ sync_extract(d, 1)
        \/ sync_chunk(d, 1)
        \/ sync_embed(d, 1)
        \/ sync_bm25(d, 1)
        \/ sync_save(d, 1)
        \/ sync_complete(d, 1)
        \/ sync_except(d, 1)
        \/ delete_document_file(d)
        \/ delete_document_row(d)

SpecDeleteRun == Init /\ [][NextDeleteRun]_vars

\* ==================================================== claims: ingestion
\* The tasks that were scheduled for document d.
DocRuns(d) == {r \in Runs : run[d][r].pc # "idle"}

\* The rows of document_chunks that belong to document d.
ChunksOf(d) == {c \in chunks : c.document_id = d}

\* Run r of document d returns from process_document_sync in this step.
Returns(d, r) ==
    /\ run[d][r].pc \in {"complete", "except"}
    /\ run'[d][r].pc = "done"

\* C1: when a step of process_document_sync raises (extraction, blank text,
\* chunking, embedding, lexical preparation, chunk persistence), the call
\* returns the outcome "failed" and, as it returns, the Document's status is
\* "failed" with the error text recorded.
C1_FailureRecorded ==
    [][\A d \in Docs, r \in Runs :
          (Returns(d, r) /\ run[d][r].err \in StepErrors) =>
              /\ run'[d][r].outcome = "failed"
              /\ status'[d] = "failed"
              /\ error_message'[d] = run[d][r].err]_vars

\* C2: once a Document's status is "completed" or "failed", no step of any
\* route or task changes it.
C2_StatusTerminal ==
    [][\A d \in Docs :
          status[d] \in {"completed", "failed"} => status'[d] = status[d]]_vars

\* The document was processed by exactly one background run, which is over.
OneRunDone(d) ==
    /\ Cardinality(DocRuns(d)) = 1
    /\ \A r \in DocRuns(d) : run[d][r].pc = "done"

\* The status values a run wrote, in order: all of them, and those the
\* storage layer accepted.
Written(rec) == [k \in 1..Len(rec.writes) |-> rec.writes[k].s]
Accepted(w) == LET ok(x) == x.ok IN SelectSeq(w, ok)
Committed(rec) ==
    LET a == Accepted(rec.writes) IN [k \in 1..Len(a) |-> a[k].s]

C4_AllOrNothing ==
    [][\A d \in Docs, r \in Runs :
          (Returns(d, r) /\ run[d][r].err = "embed") =>
              /\ {c \in chunks' : c.document_id = d} = {}
              /\ status'[d] = "failed"]_vars

\* C5: the persisted chunks of a document are none, or exactly the complete
\* set one run built from the chunker's passages, and that run gets to the
\* write of "completed" and returns success.
C5_NoPartialChunkSet ==
    \A d \in Docs :
        \/ ChunksOf(d) = {}
        \/ \E r \in Runs :
            /\ ChunksOf(d) = ChunkObjects(d, r, Passages(content[d]),
                    [k \in 1..content[d] |-> Embedding(k)])
            /\ run[d][r].pc \in {"complete", "done"}
            /\ run[d][r].pc = "done" => run[d][r].outcome = "success"

\* C6: the chunk_index values of a document's N chunks are exactly 0..N-1,
\* each once, and chunk_index i holds the passage the chunker emitted at
\* position i.
C6_SequenceInvariant ==
    \A d \in Docs :
        LET N == Cardinality(ChunksOf(d))
        IN /\ \A c \in ChunksOf(d) :
                /\ c.chunk_index \in 0..(N - 1)
                /\ c.content = c.chunk_index + 1
           /\ \A c1, c2 \in ChunksOf(d) :
                c1.chunk_index = c2.chunk_index => c1 = c2

\* The storage layer raised in this run: on the bulk insert, or on one of
\* the status updates.
StorageRaised(rec) ==
    \/ rec.err = "save"
    \/ \E k \in 1..Len(rec.writes) : ~rec.writes[k].ok

\* C7: when the storage layer raised during the bulk insert or a status
\* update of a run, the run ends with status "failed", the error recorded
\* and a failed outcome.
C7_StorageFailureMarksFailed ==
    [][\A d \in Docs, r \in Runs :
          (Returns(d, r) /\ StorageRaised(run'[d][r])) =>
              /\ status'[d] = "failed"
              /\ error_message'[d] # NULL
              /\ run'[d][r].outcome = "failed"]_vars

\* ================================================================ retrieval
\* Scores are floats in the code.  A raw score is held here in tenths (a
\* cosine similarity of 0.2 is 2); every score hybrid_search returns is held
\* as the float times One, where One is chosen so that min-max normalisation
\* and the weighting by tenths leave no remainder.
Sims == {0, 1, 2}           \* cosine similarities a chunk can have
Ranks == {0, 1, 4}          \* ts_rank values; 0: the chunk does not match
Thresholds == {0, 3}        \* RELEVANCE_THRESHOLD values (ge=0.0, default 0.3)
\* semantic_ratio arguments: None, 0.0 and 1.0
NoRatio == [given |-> FALSE, value |-> 0]
Ratio(v) == [given |-> TRUE, value |-> v]
RatioArgs == {NoRatio, Ratio(0), Ratio(10)}
ChunkIds == 1..NumChunks
\* Document.user_id values, and the user_id argument None
Owners == {"u1", "u2"}
NoUser == "none"
UserArgs == Owners \cup {NoUser}
\* Document.status values of a document that has chunks
ChunkDocStatuses == {"processing", "completed", "failed"}
\* str(e) of what the query embedding can raise
QueryErrors == {"ThrottlingException", "Too many requests",
                "ValidationException"}

DefaultRatios == {0, 5}     \* SEMANTIC_SEARCH_RATIO values (ge=0.0, default 0.5)

RECURSIVE Fact(_)
Fact(n) == IF n <= 1 THEN 1 ELSE n * Fact(n - 1)
MaxScore == CHOOSE m \in Sims \cup Ranks : \A x \in Sims \cup Ranks : x <= m
Den == Fact(MaxScore)
One == 10 * Den
Raw(tenths) == tenths * Den

SetMax(S) == CHOOSE m \in S : \A x \in S : x <= m
SetMin(S) == CHOOSE m \in S : \A x \in S : m <= x

\* ORDER BY score DESC LIMIT k over the rows ids: the sets of rows the
\* database may return (rows of equal score are taken in no defined order).
TopSets(score, ids, k) ==
    {S \in SUBSET ids :
        /\ Cardinality(S) = Min(k, Cardinality(ids))
        /\ \A x \in S, y \in ids \ S : score[x] >= score[y]}

\* The first k entries of ids listed by non-increasing score, entries of
\* equal score in any order: a stable sort of a list whose order is
\* arbitrary, cut to k; also the rows of ORDER BY score DESC LIMIT k in the
\* order the database returns them.
RECURSIVE TopSeqs(_, _, _)
TopSeqs(score, ids, k) ==
    IF k = 0 \/ ids = {} THEN {<<>>}
    ELSE LET best == {x \in ids : \A y \in ids : score[x] >= score[y]}
         IN UNION {{<<x>> \o t : t \in TopSeqs(score, ids \ {x}, k - 1)} :
                      x \in best}

\* A scope that lets every chunk through.
Unscoped(user_id) == ChunkIds

\* .join(Document).filter(Document.status == "completed") and, when a
\* user_id is given, .filter(Document.user_id == user_id).
InScope(user_id) ==
    {x \in ChunkIds :
        /\ corpus[x].status = "completed"
        /\ user_id # NoUser => corpus[x].owner = user_id}

\* A semantic search that finds no candidate.
semantic_search_empty(top_k, user_id) == {[x \in {} |-> 0]}

\* semantic_search: every chunk in scope is a candidate; the top_k by
\* cosine similarity, as chunk_id -> score.
semantic_search(top_k, user_id) ==
    {[x \in S |-> Raw(corpus[x].sim)] :
        S \in TopSets([x \in ChunkIds |-> corpus[x].sim],
                      InScope(user_id), top_k)}

\* The chunks whose tsvector matches the query (content_tsvector @@ tsquery).
Matching == {x \in ChunkIds : corpus[x].rank > 0}

\* bm25_search: the top_k matching chunks in scope by ts_rank, as
\* chunk_id -> score.
bm25_search(top_k, user_id) ==
    {[x \in S |-> Raw(corpus[x].rank)] :
        S \in TopSets([x \in ChunkIds |-> corpus[x].rank],
                      Matching \cap InScope(user_id), top_k)}

\* A lexical search without its LIMIT.
bm25_search_list_unlimited(top_k, user_id) ==
    {[i \in 1..Len(q) |->
        [chunk_id |-> q[i], score |-> Raw(corpus[q[i]].rank),
         search_type |-> "bm25"]] :
        q \in TopSeqs([x \in ChunkIds |-> corpus[x].rank],
                      Matching \cap InScope(user_id), NumChunks)}

\* bm25_search as the list it returns, best rank first.
bm25_search_list(top_k, user_id) ==
    {[i \in 1..Len(q) |->
        [chunk_id |-> q[i], score |-> Raw(corpus[q[i]].rank),
         search_type |-> "bm25"]] :
        q \in TopSeqs([x \in ChunkIds |-> corpus[x].rank],
                      Matching \cap InScope(user_id), top_k)}

\* A normalisation that gives a set of equal scores 0.0.
_normalize_scores_zeroing(results) ==
    IF DOMAIN results = {} THEN results
    ELSE LET scores == {results[x] : x \in DOMAIN results}
         IN [x \in DOMAIN results |->
               IF SetMax(scores) = SetMin(scores) THEN 0
               ELSE ((results[x] - SetMin(scores)) * One)
                        \div (SetMax(scores) - SetMin(scores))]

\* _normalize_scores: min-max normalisation of one result set; when all
\* scores are equal every entry gets 1.0.
_normalize_scores(results) ==
    IF DOMAIN results = {} THEN results
    ELSE LET scores == {results[x] : x \in DOMAIN results}
             min_score == SetMin(scores)
             max_score == SetMax(scores)
             score_range == max_score - min_score
         IN IF score_range = 0
            THEN [x \in DOMAIN results |-> One]
            ELSE [x \in DOMAIN results |->
                    ((results[x] - min_score) * One) \div score_range]

\* A blend that gives each side the other side's weight.
CombinedScoreSwapped(semantic_weight, semantic_score, bm25_weight, bm25_score) ==
    (semantic_weight * bm25_score + bm25_weight * semantic_score) \div 10

\* combined_score = semantic_weight * semantic_score + bm25_weight * bm25_score
CombinedScore(semantic_weight, semantic_score, bm25_weight, bm25_score) ==
    (semantic_weight * semantic_score + bm25_weight * bm25_score) \div 10

\* A merge that keeps the semantic candidates only.
_merge_results_semantic(semantic_results, bm25_results, semantic_weight, bm25_weight) ==
    [chunk_id \in DOMAIN semantic_results |->
        [chunk_id |-> chunk_id,
         score |-> CombinedScore(semantic_weight, semantic_results[chunk_id],
                                 bm25_weight, 0),
         semantic_score |-> semantic_results[chunk_id],
         bm25_score |-> 0,
         search_type |-> "hybrid"]]

\* _merge_results over the normalised sets: one entry per chunk id of the
\* union, a missing side counting 0.0.
_merge_results(semantic_results, bm25_results, semantic_weight, bm25_weight) ==
    LET all_chunk_ids == DOMAIN semantic_results \cup DOMAIN bm25_results
    IN [chunk_id \in all_chunk_ids |->
          LET semantic_score == IF chunk_id \in DOMAIN semantic_results
                                THEN semantic_results[chunk_id] ELSE 0
              bm25_score == IF chunk_id \in DOMAIN bm25_results
                            THEN bm25_results[chunk_id] ELSE 0
          IN [chunk_id |-> chunk_id,
              score |-> CombinedScore(semantic_weight, semantic_score,
                                      bm25_weight, bm25_score),
              semantic_score |-> semantic_score,
              bm25_score |-> bm25_score,
              search_type |-> "hybrid"]]

\* semantic_ratio = semantic_ratio or settings.SEMANTIC_SEARCH_RATIO: None
\* and 0.0 are both falsy.
EffectiveRatio(semantic_ratio) ==
    IF ~semantic_ratio.given \/ semantic_ratio.value = 0
    THEN settings.SEMANTIC_SEARCH_RATIO ELSE semantic_ratio.value

\* The relevance floor as a score.
Floor(threshold) == threshold * Den

\* A filter that lets every result through.
RelevanceFilterOff(top_results, threshold) == top_results

\* [r for r in top_results if r["score"] >= settings.RELEVANCE_THRESHOLD]
RelevanceFilter(top_results, threshold) ==
    LET keep(r) == r.score >= Floor(threshold) IN SelectSeq(top_results, keep)

\* The blended path of hybrid_search: 2 * top_k candidates of each search,
\* normalised, merged, sorted by combined score (sort is stable, the merged
\* list is in set iteration order), cut to top_k and filtered by the floor.
hybrid_search_blended(top_k, user_id, semantic_ratio) ==
    LET ratio == EffectiveRatio(semantic_ratio)
        bm25_ratio == 10 - ratio
        retrieve_k == top_k * 2
    IN UNION {UNION {
          LET merged == _merge_results(_normalize_scores(sem),
                                       _normalize_scores(bm), ratio, bm25_ratio)
              score == [x \in DOMAIN merged |-> merged[x].score]
          IN {RelevanceFilter([i \in 1..Len(q) |-> merged[q[i]]],
                              settings.RELEVANCE_THRESHOLD) :
                 q \in TopSeqs(score, DOMAIN merged, top_k)} :
          bm \in bm25_search(retrieve_k, user_id)} :
          sem \in semantic_search(retrieve_k, user_id)}

\* A test that takes no error for a throttling error.
NeverThrottling(e) == FALSE

\* "ThrottlingException" in str(e) or "Too many requests" in str(e)
IsThrottling(e) == e \in {"ThrottlingException", "Too many requests"}

\* The call as hybrid_search leaves it: its arguments, how the query
\* embedding ended and, when it raised, str(e).
Called(top_k, user_id, semantic_ratio, embedding, error) ==
    [top_k |-> top_k, user_id |-> user_id, semantic_ratio |-> semantic_ratio,
     embedding |-> embedding, error |-> error]

\* A search that also marks the documents it read as being processed.
hybrid_search_marking(user_id) ==
    /\ call = NoCall
    /\ \E top_k \in 1..MaxTopK :
         /\ call' = Called(top_k, user_id, NoRatio, "throttled",
                           "ThrottlingException")
         /\ \E items \in bm25_search_list(top_k, user_id) :
              result' = [raised |-> FALSE, items |-> items]
    /\ corpus' = [x \in ChunkIds |-> [corpus[x] EXCEPT !.status = "processing"]]
    /\ UNCHANGED settings
    /\ UNCHANGED <<ingestVars, textVars>>

\* hybrid_search(query_text, top_k, user_id, semantic_ratio).  The query
\* embedding succeeds, or fails with a throttling error (the lexical results
\* of bm25_search(query_text, top_k, user_id) are returned as they are), or
\* fails with another error, which is re-raised.  One call is followed per
\* corpus: the call changes nothing that a later call reads.
hybrid_search(user_id) ==
    /\ call = NoCall
    /\ \E top_k \in 1..MaxTopK, semantic_ratio \in RatioArgs :
        \/ /\ call' = Called(top_k, user_id, semantic_ratio, "ok", NULL)
           /\ \E items \in hybrid_search_blended(top_k, user_id,
                                                  semantic_ratio) :
                result' = [raised |-> FALSE, items |-> items]
        \/ \E e \in QueryErrors :
              IF IsThrottling(e)
              THEN /\ call' = Called(top_k, user_id, semantic_ratio,
                                     "throttled", e)
                   /\ \E items \in bm25_search_list(top_k, user_id) :
                        result' = [raised |-> FALSE, items |-> items]
              ELSE /\ call' = Called(top_k, user_id, semantic_ratio,
                                     "error", e)
                   /\ result' = [raised |-> TRUE, items |-> <<>>]
    /\ UNCHANGED <<settings, corpus>>
    /\ UNCHANGED <<ingestVars, textVars>>

\* The corpus a query is ranked against.  Chunk ids are uuids and carry no
\* order in the code, so they are numbered by non-increasing similarity to
\* the query and, among equals, by non-increasing rank.
SearchInit ==
    /\ settings \in [SEMANTIC_SEARCH_RATIO : DefaultRatios,
                     RELEVANCE_THRESHOLD : Thresholds]
    /\ corpus \in {c \in [ChunkIds -> [sim : Sims, rank : Ranks,
                                        document_id : {1}, owner : {"u1"},
                                        status : {"completed"}]] :
                      \A x, y \in ChunkIds : x < y =>
                          \/ c[x].sim > c[y].sim
                          \/ c[x].sim = c[y].sim /\ c[x].rank >= c[y].rank}
    /\ call = NoCall
    /\ result = NoResult

InitSearch == IngestInit /\ SearchInit /\ TextIdle

\* The searches of one user over a corpus of that user's completed
\* documents.
NextSearch == hybrid_search("u1")

SpecSearch == InitSearch /\ [][NextSearch]_vars

\* ------------------------------------------------- retrieval: the scope
\* The corpus as the tables hold it: chunks of two documents, each document
\* with an owner and a status; the scores of the chunks for the query are
\* fixed by the chunk's position.
DocIds == {1, 2}
DocOf(x) == ((x - 1) % 2) + 1
ScopeSim(x) == (x + 1) % 3
ScopeRank(x) == IF x % 3 = 0 THEN 0 ELSE IF x % 3 = 1 THEN 1 ELSE 4

ScopeInit ==
    /\ settings \in [SEMANTIC_SEARCH_RATIO : {5}, RELEVANCE_THRESHOLD : Thresholds]
    /\ \E docs \in [DocIds -> [owner : Owners, status : ChunkDocStatuses]] :
         corpus = [x \in ChunkIds |->
                     [sim |-> ScopeSim(x), rank |-> ScopeRank(x),
                      document_id |-> DocOf(x),
                      owner |-> docs[DocOf(x)].owner,
                      status |-> docs[DocOf(x)].status]]
    /\ call = NoCall
    /\ result = NoResult

InitScope == IngestInit /\ ScopeInit /\ TextIdle

\* The searches of any user, and of no user in particular.
NextScope == \E user_id \in UserArgs : hybrid_search(user_id)

SpecScope == InitScope /\ [][NextScope]_vars

\* ==================================================== claims: retrieval
Items == result.items
ItemIds == {Items[i].chunk_id : i \in 1..Len(Items)}
SimOf(x) == corpus[x].sim
RankOf(x) == corpus[x].rank

\* hybrid_search returned on the blended path: the query was embedded.
Blended == call.embedding = "ok"

\* C8 as claimed: whatever the outcome of the query embedding, every result
\* hybrid_search returns has a score of at least the relevance floor.
C8_FloorOnEveryPath ==
    call.embedding \in {"ok", "throttled"} =>
        \A i \in 1..Len(Items) :
            Items[i].score >= Floor(settings.RELEVANCE_THRESHOLD)

\* C8 as amended: when the query embedding succeeds, every result returned
\* has a combined score of at least the relevance floor (the throttling
\* fallback returns the lexical results with their raw ranks, unfiltered).
C8_FloorOnBlendedPath ==
    Blended =>
        \A i \in 1..Len(Items) :
            Items[i].score >= Floor(settings.RELEVANCE_THRESHOLD)

\* C8 witness: a blended call whose floor removed a candidate from the
\* top_k cut and kept another.
C8_Witness ==
    /\ Blended
    /\ settings.RELEVANCE_THRESHOLD > 0
    /\ Len(Items) >= 1
    /\ Len(Items) < call.top_k

\* C9: called with semantic_ratio = 0.0, every returned result's combined
\* score is its normalised lexical score and the results are in the order
\* of the lexical ranking.
C9_LexicalEnd ==
    (Blended /\ call.semantic_ratio = Ratio(0)) =>
        /\ \A i \in 1..Len(Items) : Items[i].score = Items[i].bm25_score
        /\ \A i, j \in 1..Len(Items) :
              i < j => RankOf(Items[i].chunk_id) >= RankOf(Items[j].chunk_id)

\* The call asked for the semantic end of the blend and was not throttled.
SemanticEnd == Blended /\ call.semantic_ratio = Ratio(10)

\* C10 as claimed: called with semantic_ratio = 1.0, the results are in
\* order of descending similarity and are the leading semantic candidates:
\* no chunk left out is more similar to the query than a chunk returned.
C10_SemanticEnd ==
    SemanticEnd =>
        /\ \A i, j \in 1..Len(Items) :
              i < j => SimOf(Items[i].chunk_id) >= SimOf(Items[j].chunk_id)
        /\ \A x \in ItemIds, y \in ChunkIds \ ItemIds : SimOf(x) >= SimOf(y)

\* The results with a combined score above 0.
Positive == {i \in 1..Len(Items) : Items[i].score > 0}
PositiveIds == {Items[i].chunk_id : i \in Positive}

\* C10 as amended: called with semantic_ratio = 1.0, a result's combined
\* score is its normalised semantic score; the results with a combined score
\* above 0 come first, in order of descending similarity, and are the
\* leading semantic candidates; with a relevance floor above 0 nothing else
\* is returned.  (Results with combined score 0, which a floor of 0 lets
\* through, are in no particular order.)
C10_SemanticEndAboveZero ==
    SemanticEnd =>
        /\ \A i \in 1..Len(Items) : Items[i].score = Items[i].semantic_score
        /\ \A i \in Positive, j \in 1..Len(Items) :
              i < j => SimOf(Items[i].chunk_id) >= SimOf(Items[j].chunk_id)
        /\ \A i \in Positive, j \in (1..Len(Items)) \ Positive : i < j
        /\ \A x \in PositiveIds, y \in ChunkIds \ PositiveIds :
              SimOf(x) >= SimOf(y)
        /\ settings.RELEVANCE_THRESHOLD > 0 => Positive = 1..Len(Items)

\* C10 witness: with a floor of 0 a chunk of combined score 0 is returned in
\* place of a chunk that is more similar to the query.
C10_Witness ==
    /\ SemanticEnd
    /\ \E i \in 1..Len(Items) :
        /\ Items[i].score = 0
        /\ Positive # {}
        /\ \E y \in ChunkIds \ ItemIds : SimOf(y) > SimOf(Items[i].chunk_id)

\* items is what bm25_search(query_text, top_k, user_id) returns: the top_k
\* matching chunks in scope, best rank first, each with its raw rank.
IsLexicalResult(items, top_k, user_id) ==
    LET found == Matching \cap InScope(user_id)
        ids == {items[i].chunk_id : i \in 1..Len(items)}
    IN /\ Len(items) = Min(top_k, Cardinality(found))
       /\ Cardinality(ids) = Len(items)
       /\ ids \subseteq found
       /\ \A i \in 1..Len(items) :
            /\ items[i].search_type = "bm25"
            /\ items[i].score = Raw(RankOf(items[i].chunk_id))
            /\ DOMAIN items[i] = {"chunk_id", "score", "search_type"}
       /\ \A i, j \in 1..Len(items) :
            i < j => RankOf(items[i].chunk_id) >= RankOf(items[j].chunk_id)
       /\ \A x \in ids, y \in found \ ids : RankOf(x) >= RankOf(y)

\* C11: when the query embedding fails with a throttling error, hybrid_search
\* does not raise and returns what bm25_search(query_text, top_k, user_id)
\* returns, raw ranks and all; when it fails with any other error the call
\* raises and returns nothing.
C11_DegradationPolicy ==
    call.error # NULL =>
        IF call.error \in {"ThrottlingException", "Too many requests"}
        THEN /\ ~result.raised
             /\ IsLexicalResult(Items, call.top_k, call.user_id)
        ELSE /\ result.raised
             /\ Items = <<>>

\* C11 witness: a throttled call returned a lexical result with its raw rank,
\* which normalisation would have changed.
C11_Witness ==
    /\ call.error = "Too many requests"
    /\ ~result.raised
    /\ \E i \in 1..Len(Items) :
         /\ Items[i].search_type = "bm25"
         /\ Items[i].score = Raw(RankOf(Items[i].chunk_id))
         /\ Items[i].score \notin {0, One}

\* C12: every chunk hybrid_search returns, blended or fallback, belongs to a
\* document whose status is "completed" and, when a user_id is passed, whose
\* owner is that user.
C12_RetrievalScope ==
    \A i \in 1..Len(Items) :
        /\ corpus[Items[i].chunk_id].status = "completed"
        /\ call.user_id # NoUser =>
               corpus[Items[i].chunk_id].owner = call.user_id

\* C12 witness: a call for one owner returned chunks while the other
\* document, with matching chunks, belongs to someone else or is not
\* completed.
C12_Witness ==
    /\ call.user_id \in Owners
    /\ Items # <<>>
    /\ \E y \in Matching :
         \/ corpus[y].owner # call.user_id
         \/ corpus[y].status # "completed"

\* C13: a call of hybrid_search, on the blended path, the fallback or the
\* error path, leaves the persisted documents and chunks as they were.
C13_ReadOnly ==
    [][(call = NoCall /\ call' # NoCall) =>
          /\ corpus' = corpus
          /\ UNCHANGED ingestVars]_vars

\* C13 witness: a throttled call returned over a corpus that holds a
\* document still being processed.
C13_Witness ==
    /\ call.embedding = "throttled"
    /\ \E x \in ChunkIds : corpus[x].status = "processing"
    /\ \E x \in ChunkIds : corpus[x].status = "completed"

\* C16: a Document carries an error message if and only if its status is
\* "failed".
C16_ErrorIffFailed ==
    \A d \in Docs : (error_message[d] # NULL) <=> (status[d] = "failed")

\* ===================================================== generate_embeddings
\* BedrockClient.generate_embeddings(texts, input_type, batch_size) on its
\* own.  A text is a passage id; the backend answers a call with one vector
\* per text of the batch, in the batch's order (the contract of the embedding
\* model), with no vectors at all, or with an error.
TextIds == {1, 2}
TextLists == UNION {[1..n -> TextIds] : n \in 0..MaxTexts}
BatchSizes == 1..(BatchCap + 1)
Responses == {"ok", "empty", "raise"}

GenInit ==
    \E texts \in TextLists, batch_size \in BatchSizes :
        gen = [NoGen EXCEPT !.pc = "called", !.texts = texts,
                            !.batch_size = batch_size]

\* if not texts: return []; otherwise the batch loop is entered.
generate_embeddings ==
    /\ gen.pc = "called"
    /\ gen' = [gen EXCEPT !.pc = IF gen.texts = <<>> THEN "returned" ELSE "loop"]
    /\ UNCHANGED <<ingestVars, searchVars, ext, chk>>

\* One iteration of `for i in range(0, len(texts), batch_size)`: the delay
\* before every batch but the first, the backend call, then either the
\* raise (of the call, or of the check for an empty answer) or
\* all_embeddings.extend(batch_embeddings); after the last batch the list is
\* returned.
invoke_model ==
    /\ gen.pc = "loop"
    /\ LET size == BatchSize(gen.batch_size)
           batch == Batch(gen.texts, gen.i, size)
           sent == [gen EXCEPT !.calls = Append(@, batch),
                               !.delays = IF gen.i > 0 THEN @ + 1 ELSE @]
       IN \E response \in Responses :
            gen' = IF response = "ok"
                   THEN [sent EXCEPT
                           !.all_embeddings =
                               @ \o [k \in 1..Len(batch) |-> Embedding(batch[k])],
                           !.i = @ + size,
                           !.pc = IF gen.i + size >= Len(gen.texts)
                                  THEN "returned" ELSE "loop"]
                   ELSE [sent EXCEPT !.pc = "raised"]
    /\ UNCHANGED <<ingestVars, searchVars, ext, chk>>

InitEmbed ==
    /\ IngestInit /\ SearchIdle
    /\ GenInit
    /\ ext = NoExtract
    /\ chk = NoChunking

NextEmbed == generate_embeddings \/ invoke_model

SpecEmbed == InitEmbed /\ [][NextEmbed]_vars

C15_DeleteCascades ==
    \A d \in Docs :
        /\ deletion[d].outcome = "true" =>
              /\ status[d] = "deleted"
              /\ {c \in chunks : c.document_id = d} = {}
              /\ blob[d] # "stored"
        /\ ~(blob[d] = "removed" /\ RowExists(d))

\* ============================================================ extract_text
\* DocumentProcessor.extract_text(file_path, file_type) on its own.  The
\* file is a list of parts (the lines of a text file, the pages of a PDF,
\* the paragraphs of a DOCX): blank, mostly Chinese, or mostly not.
FileTypes == {"txt", "TXT", "pdf", "docx", "doc", "xls", ""}
PartKinds == {"blank", "zh", "en"}
FileParts == UNION {[1..n -> PartKinds] : n \in 0..2}

\* file_type.lower()
Lower(file_type) == IF file_type = "TXT" THEN "txt" ELSE file_type

ExtInit ==
    \E file_type \in FileTypes, exists \in BOOLEAN, parts \in FileParts :
        ext = [pc |-> "called", file_type |-> file_type, exists |-> exists,
               parts |-> parts, io |-> <<>>, outcome |-> "none", text |-> <<>>]

\* if not os.path.exists(file_path): raise FileNotFoundError
extract_text_exists ==
    /\ ext.pc = "called"
    /\ ext' = IF ext.exists
              THEN [ext EXCEPT !.io = Append(@, "exists"), !.pc = "read"]
              ELSE [ext EXCEPT !.io = Append(@, "exists"), !.pc = "done",
                               !.outcome = "FileNotFoundError"]
    /\ UNCHANGED <<ingestVars, searchVars, gen, chk>>

\* The parts of the file that extraction keeps: a text file is read whole,
\* a PDF keeps the pages that are more than 30% Chinese characters, a DOCX
\* the paragraphs that are not blank.
KeptParts(file_type, parts) ==
    LET zh(k) == k = "zh"
        text(k) == k # "blank"
    IN IF file_type = "txt" THEN parts
       ELSE IF file_type = "pdf" THEN SelectSeq(parts, zh)
       ELSE SelectSeq(parts, text)

\* The dispatch on file_type.lower(): the file is opened and read by the
\* reader of its type (which raises when the file cannot be read, and whose
\* import raises when the library is missing), and any other type raises
\* ValueError("Unsupported file type").
extract_text_read ==
    /\ ext.pc = "read"
    /\ LET file_type == Lower(ext.file_type)
       IN IF file_type \in {"txt", "pdf", "docx", "doc"}
          THEN \E how \in {"read", "ImportError", "ReadError"} :
                 /\ how = "ImportError" => file_type # "txt"
                 /\ ext' = IF how = "read"
                           THEN [ext EXCEPT !.io = Append(@, "open"),
                                            !.pc = "done",
                                            !.outcome = "returned",
                                            !.text = KeptParts(file_type, ext.parts)]
                           ELSE IF how = "ReadError"
                           THEN [ext EXCEPT !.io = Append(@, "open"),
                                            !.pc = "done",
                                            !.outcome = "ReadError"]
                           ELSE [ext EXCEPT !.pc = "done",
                                            !.outcome = "MissingLibrary"]
          ELSE ext' = [ext EXCEPT !.pc = "done", !.outcome = "UnsupportedType"]
    /\ UNCHANGED <<ingestVars, searchVars, gen, chk>>

InitExtract ==
    /\ IngestInit /\ SearchIdle
    /\ gen = NoGen
    /\ ExtInit
    /\ chk = NoChunking

NextExtract == extract_text_exists \/ extract_text_read

SpecExtract == InitExtract /\ [][NextExtract]_vars

\* C17: extract_text called with a type outside txt, pdf, docx, doc ends with
\* the unsupported-type error, with no file I/O done, whether or not the
\* file exists; the not-found error is only for a supported type.
C17_UnsupportedBeforeIO ==
    ext.pc = "done" =>
        /\ Lower(ext.file_type) \notin {"txt", "pdf", "docx", "doc"} =>
              /\ ext.outcome = "UnsupportedType"
              /\ ext.io = <<>>
        /\ ext.outcome = "FileNotFoundError" =>
              /\ Lower(ext.file_type) \in {"txt", "pdf", "docx", "doc"}
              /\ ~ext.exists

\* ============================================================== chunk_text
\* DocumentProcessor.chunk_text(text, chunk_size, overlap) on its own.  A
\* text is a sequence of characters: a letter, a space, a newline, a
\* sentence terminator, and M, which stands for one article or section
\* marker ("Article 1", "Section 2", ...).
Chars == {"a", " ", "\n", ".", "M"}
Texts == UNION {[1..n -> Chars] : n \in 0..MaxTextLen}
\* chunk_size and overlap arguments; 0 stands for None and for 0, which
\* `or` treats alike
ChunkSizeArgs == {0, 2, 3}
OverlapArgs == {0, 1, 2}

\* \s of the regular expressions, and what str.strip() removes
SpaceChars == {" ", "\n"}
IsSpace(c) == c \in SpaceChars

\* The characters of s at the positions K, in order.
Pick(s, K) ==
    [j \in 1..Cardinality(K) |->
        s[CHOOSE i \in K : Cardinality({k \in K : k < i}) = j - 1]]

\* str.strip()
Strip(s) ==
    LET inner == {i \in 1..Len(s) : ~IsSpace(s[i])}
    IN IF inner = {} THEN <<>>
       ELSE SubSeq(s, SetMin(inner), SetMax(inner))

\* re.sub(r"[ \t]+", " ", text)
CollapseSpaces(s) ==
    Pick(s, {i \in 1..Len(s) : ~(s[i] = " " /\ i > 1 /\ s[i - 1] = " ")})

\* re.sub(r"\n{3,}", "\n\n", text)
CollapseNewlines(s) ==
    Pick(s, {i \in 1..Len(s) :
                ~(i > 2 /\ s[i] = "\n" /\ s[i - 1] = "\n" /\ s[i - 2] = "\n")})

\* The three normalisation statements of chunk_text.
Normalize(text) == Strip(CollapseNewlines(CollapseSpaces(text)))

\* The last position j >= i - 1 such that every character of s[i..j]
\* is of the class: the end of a greedy character-class run.
RunEnd(s, i, class) ==
    SetMax({j \in (i - 1)..Len(s) : \A k \in i..j : s[k] \in class})

\* The stripped, non-empty ones of the pieces.
StrippedPieces(pieces) ==
    LET nonempty(p) == p # <<>>
    IN SelectSeq([k \in 1..Len(pieces) |-> Strip(pieces[k])], nonempty)

\* _is_structured_document: three or more markers
_is_structured_document(text) ==
    Cardinality({i \in 1..Len(text) : text[i] = "M"}) >= 3

\* _split_by_articles: one unit from each marker to the next marker (or the
\* end of the text), stripped.
_split_by_articles(text) ==
    LET starts == {i \in 1..Len(text) : text[i] = "M"}
        next(i) == IF \E j \in starts : j > i
                   THEN SetMin({j \in starts : j > i}) ELSE Len(text) + 1
        articles == [k \in 1..Cardinality(starts) |->
                        LET start == Pick([i \in 1..Len(text) |-> i], starts)[k]
                        IN SubSeq(text, start, next(start) - 1)]
    IN IF starts = {} THEN <<text>> ELSE StrippedPieces(articles)

\* re.split(r"\n\s*\n", text) from position i on, the piece in progress
\* having started at start.
RECURSIVE ParagraphPieces(_, _, _)
ParagraphPieces(s, start, i) ==
    IF i > Len(s) THEN <<SubSeq(s, start, Len(s))>>
    ELSE LET ends == {j \in (i + 1)..RunEnd(s, i, SpaceChars) : s[j] = "\n"}
         IN IF s[i] = "\n" /\ ends # {}
            THEN <<SubSeq(s, start, i - 1)>>
                 \o ParagraphPieces(s, SetMax(ends) + 1, SetMax(ends) + 1)
            ELSE ParagraphPieces(s, start, i + 1)

\* _split_by_paragraphs
_split_by_paragraphs(text) ==
    LET paragraphs == StrippedPieces(ParagraphPieces(text, 1, 1))
    IN IF paragraphs # <<>> THEN paragraphs ELSE <<text>>

Terminators == {"."}
IsTerminator(c) == c \in Terminators

\* re.split(r"[.!?]+\s*", text) from position i on.
RECURSIVE SentencePieces(_, _, _)
SentencePieces(s, start, i) ==
    IF i > Len(s) THEN <<SubSeq(s, start, Len(s))>>
    ELSE IF IsTerminator(s[i])
         THEN LET e == RunEnd(s, RunEnd(s, i, Terminators) + 1, SpaceChars)
              IN <<SubSeq(s, start, i - 1)>> \o SentencePieces(s, e + 1, e + 1)
         ELSE SentencePieces(s, start, i + 1)

\* _get_overlap_text(text, overlap_size)
_get_overlap_text(text, overlap_size) ==
    IF Len(text) <= overlap_size THEN text
    ELSE LET overlap_text == SubSeq(text, Len(text) - overlap_size + 1, Len(text))
             spaces == {i \in 1..Len(overlap_text) : overlap_text[i] = " "}
         IN IF spaces # {} /\ SetMin(spaces) > 1
            THEN Strip(SubSeq(overlap_text, SetMin(spaces), Len(overlap_text)))
            ELSE overlap_text

\* The loop of _split_by_sentences from sentence k on.
RECURSIVE SentenceLoop(_, _, _, _, _, _)
SentenceLoop(sentences, k, found, current, max_size, overlap) ==
    IF k > Len(sentences)
    THEN IF current # <<>> THEN Append(found, Strip(current)) ELSE found
    ELSE LET sentence == sentences[k]
         IN IF current # <<>> /\ Len(current) + Len(sentence) > max_size
            THEN SentenceLoop(sentences, k + 1, Append(found, Strip(current)),
                              _get_overlap_text(current, overlap)
                                  \o <<" ">> \o sentence,
                              max_size, overlap)
            ELSE SentenceLoop(sentences, k + 1, found,
                              IF current # <<>>
                              THEN current \o <<" ">> \o sentence
                              ELSE sentence,
                              max_size, overlap)

\* _split_by_sentences
_split_by_sentences(text, max_size, overlap) ==
    SentenceLoop(StrippedPieces(SentencePieces(text, 1, 1)), 1, <<>>, <<>>,
                 max_size, overlap)

\* The loop of _process_semantic_units from unit k on, and the statements
\* after it.
RECURSIVE UnitLoop(_, _, _, _, _, _, _)
UnitLoop(units, k, found, current_chunk, min_size, max_size, overlap) ==
    IF k > Len(units)
    THEN LET all == IF current_chunk # <<>> /\ Len(Strip(current_chunk)) > 0
                    THEN Append(found, Strip(current_chunk)) ELSE found
             nonempty(c) == c # <<>>
         IN SelectSeq(all, nonempty)
    ELSE LET unit == units[k]
             unit_size == Len(unit)
         IN IF unit_size <= max_size
            THEN LET over == current_chunk # <<>>
                             /\ Len(current_chunk) + unit_size > max_size
                     saved == IF over THEN Append(found, Strip(current_chunk))
                              ELSE found
                     start == IF over
                              THEN _get_overlap_text(current_chunk, overlap)
                              ELSE current_chunk
                     grown == IF start # <<>>
                              THEN start \o <<"\n", "\n">> \o unit ELSE unit
                 IN IF /\ Len(grown) >= min_size
                       /\ \/ 10 * Len(grown) >= 7 * max_size
                          \/ unit = units[Len(units)]
                    THEN UnitLoop(units, k + 1, Append(saved, Strip(grown)),
                                  <<>>, min_size, max_size, overlap)
                    ELSE UnitLoop(units, k + 1, saved, grown,
                                  min_size, max_size, overlap)
            ELSE LET saved == IF current_chunk # <<>>
                              THEN Append(found, Strip(current_chunk))
                              ELSE found
                 IN UnitLoop(units, k + 1,
                             saved \o _split_by_sentences(unit, max_size, overlap),
                             <<>>, min_size, max_size, overlap)

\* _process_semantic_units
_process_semantic_units(units, min_size, max_size, overlap) ==
    UnitLoop(units, 1, <<>>, <<>>, min_size, max_size, overlap)

\* `chunk_size or 1000`, `overlap or 100`
OrDefault(arg, default) == IF arg # 0 THEN arg ELSE default

\* The list chunk_text returns.
ChunkList(text, chunk_size, overlap) ==
    LET max_chunk_size == OrDefault(chunk_size, DefaultChunkSize)
        min_chunk_size == MinChunkSize
        overlap_size == OrDefault(overlap, DefaultOverlap)
        normal == Normalize(text)
        semantic_units == IF _is_structured_document(normal)
                          THEN _split_by_articles(normal)
                          ELSE _split_by_paragraphs(normal)
    IN IF text = <<>> \/ Strip(text) = <<>> THEN <<>>
       ELSE _process_semantic_units(semantic_units, min_chunk_size,
                                    max_chunk_size, overlap_size)

\* A caller is about to chunk some text with some arguments.
ChunkInit ==
    chk \in [pc : {"called"}, text : Texts, chunk_size : ChunkSizeArgs,
             overlap : OverlapArgs, chunks : {<<>>}]

\* chunk_text, from its call to its return
chunk_text ==
    /\ chk.pc = "called"
    /\ chk' = [chk EXCEPT !.pc = "returned",
                          !.chunks = ChunkList(chk.text, chk.chunk_size,
                                               chk.overlap)]
    /\ UNCHANGED <<ingestVars, searchVars, gen, ext>>

InitChunk == IngestInit /\ SearchIdle /\ gen = NoGen /\ ext = NoExtract /\ ChunkInit
NextChunk == chunk_text
SpecChunk == InitChunk /\ [][NextChunk]_vars

\* ------------------------------------------------------- chunk_text claims
\* The maximum size and the overlap a returned call worked with.
MaxSizeOf(c) == OrDefault(c.chunk_size, DefaultChunkSize)

\* The semantic units chunk_text splits the text into.
UnitsOf(text) ==
    IF _is_structured_document(Normalize(text))
    THEN _split_by_articles(Normalize(text))
    ELSE _split_by_paragraphs(Normalize(text))

\* The sentences of the text: what the sentence pattern splits its units into.
SentencesOf(text) ==
    UNION {Range(StrippedPieces(SentencePieces(UnitsOf(text)[k], 1, 1))) :
              k \in 1..Len(UnitsOf(text))}

\* C18: size bound.  For every text, every maximum size M and every overlap O
\* with 0 <= O < M, each chunk chunk_text returns is at most M characters
\* long, unless the chunk is one single sentence of the text that alone is
\* longer than M.
C18_SizeBound ==
    (chk.pc = "returned" /\ chk.overlap < MaxSizeOf(chk)) =>
        \A i \in 1..Len(chk.chunks) :
            \/ Len(chk.chunks[i]) <= MaxSizeOf(chk)
            \/ chk.chunks[i] \in SentencesOf(chk.text)

IsPrefix(p, s) == Len(p) <= Len(s) /\ SubSeq(s, 1, Len(p)) = p

\* The trailing overlap_size characters of a chunk, advanced to the first
\* word boundary.
Trailing(chunk, overlap_size) ==
    IF overlap_size = 0 THEN <<>>
    ELSE Strip(_get_overlap_text(chunk, overlap_size))

\* C19: overlap correctness.  For every pair of adjacent chunks of one
\* chunk_text call, the trailing `overlap` characters of the first, advanced
\* to the first word boundary, are a prefix of the second, whatever kind of
\* flush ended the first.
C19_OverlapPrefix ==
    (chk.pc = "returned" /\ chk.overlap < MaxSizeOf(chk)) =>
        \A i \in 1..(Len(chk.chunks) - 1) :
            IsPrefix(Trailing(chk.chunks[i], chk.overlap), chk.chunks[i + 1])

\* A chunk without the overlap prefix it shares with its predecessor.
NonOverlap(chunk_list, overlap_size, i) ==
    LET shared == IF i = 1 THEN <<>>
                  ELSE Trailing(chunk_list[i - 1], overlap_size)
    IN IF IsPrefix(shared, chunk_list[i])
       THEN SubSeq(chunk_list[i], Len(shared) + 1, Len(chunk_list[i]))
       ELSE chunk_list[i]

RECURSIVE Concatenated(_, _, _)
Concatenated(chunk_list, overlap_size, i) ==
    IF i > Len(chunk_list) THEN <<>>
    ELSE NonOverlap(chunk_list, overlap_size, i)
         \o Concatenated(chunk_list, overlap_size, i + 1)

\* A text without its whitespace: chunks are stripped and their units are
\* joined by separators, so a reconstruction is compared up to whitespace.
Visible(s) == LET shown(c) == ~IsSpace(c) IN SelectSeq(s, shown)

\* C20: chunk coverage.  For any text, the chunks in order, each without the
\* overlap prefix it shares with its predecessor, concatenate to the whole
\* normalized text: nothing is lost, neither text before the first marker of
\* a structured document nor a sentence terminator.
C20_Coverage ==
    chk.pc = "returned" =>
        Visible(Concatenated(chk.chunks, chk.overlap, 1))
            = Visible(Normalize(chk.text))

\* ------------------------------------------- claims: runs and deletion
\* Run r of document d has entered process_document_sync.
Started(d, r) ==
    \/ run[d][r].pc \in {"extract", "chunk", "embed", "bm25", "save",
                          "complete", "except"}
    \/ run[d][r].outcome # "none"

\* C21: at most one processing run is ever started per document id: the
\* pending-status check of trigger_document_processing keeps a second
\* process_document_sync run from starting for a document that already has
\* a run scheduled, in flight or finished, and the chunks of a document come
\* from one run only.
C21_AtMostOneRun ==
    \A d \in Docs :
        /\ Cardinality({r \in Runs : Started(d, r)}) <= 1
        /\ Cardinality({c.id[2] : c \in ChunksOf(d)}) <= 1

\* C22: chunks never outlive their document.  Under any interleaving of
\* delete_document with a run of the same document, every persisted chunk
\* references an existing Document, and once the Document is deleted no
\* step of a run persists a chunk for it or brings the row back.
C22_ChunksHaveDocument ==
    [][\A d \in Docs :
          /\ ~RowExists(d)' => ChunksOf(d)' = {}
          /\ status[d] = "deleted" => status'[d] = "deleted"]_vars

\* The Document was deleted while a run held passages to insert, and the
\* run has since ended in its except branch on the refused insert.
C22_Witness ==
    \E d \in Docs, r \in Runs :
        /\ status[d] = "deleted"
        /\ deletion[d].outcome = "true"
        /\ run[d][r].err = "save"
        /\ run[d][r].pc = "done"
        /\ "failed" \notin Range(hist[d])
        /\ ChunksOf(d) = {}

\* ------------------------------------------------- claims: order of steps
\* The rows of document_chunks that run r of document d inserted.
RowsOf(d, r) == {c \in ChunksOf(d) : c.id[2] = r}

C24_LexicalRepresentation ==
    \A d \in Docs, r \in Runs :
        run[d][r].outcome = "success" =>
            \A c \in RowsOf(d, r) :
                /\ c.content_tsvector # NULL
                /\ c.content_tsvector = Bm25Text(c.content)

\* ======================================= the chunking step of the pipeline
\* A DocumentProcessor built under some configuration (__init__ copies
\* settings.CHUNK_SIZE and settings.CHUNK_OVERLAP into self.chunk_size and
\* self.chunk_overlap) is about to chunk an extracted text, which is not
\* blank (step 1 raises for a blank text).
ProcessorInit ==
    /\ settings \in [CHUNK_SIZE : {2, 3, DefaultChunkSize},
                      CHUNK_OVERLAP : {DefaultOverlap}]
    /\ chk \in [pc : {"processor"},
                text : {t \in Texts : Strip(t) # <<>>}, chunk_size : {0},
                overlap : {0}, chunks : {<<>>}]

\* Step 2 of process_document_sync: chunks = self.chunk_text(text), with
\* neither chunk_size nor overlap passed.
process_document_sync_chunk ==
    /\ chk.pc = "processor"
    /\ chk' = [chk EXCEPT !.pc = "returned",
                          !.chunks = ChunkList(chk.text, chk.chunk_size,
                                               chk.overlap)]
    /\ UNCHANGED <<ingestVars, searchVars, gen, ext>>

InitProcessor ==
    /\ IngestInit /\ ProcessorInit
    /\ corpus = <<>> /\ call = NoCall /\ result = NoResult
    /\ gen = NoGen /\ ext = NoExtract
SpecProcessor == InitProcessor /\ [][process_document_sync_chunk]_vars

\* C25: the chunk size and overlap process_document_sync applies are the
\* ones the DocumentProcessor was configured with, not built-in constants:
\* the passages of a text are those chunk_text cuts under the configured
\* maximum size and overlap, so processors configured with different sizes
\* pack the same text under different limits.
C25_ConfiguredSizes ==
    chk.pc = "returned" =>
        chk.chunks = ChunkList(chk.text, settings.CHUNK_SIZE,
                               settings.CHUNK_OVERLAP)

\* ------------------------------------------ claims: embedding backend calls
\* C26: a successful generate_embeddings call for N texts and a requested
\* batch size B >= 1 issues exactly ceil(N / min(B, cap)) backend calls, each
\* carrying at most min(B, cap) texts, the texts being taken in input order,
\* with one delay before every call but the first; for N = 0 it returns the
\* empty list without a backend call.
C26_BackendCalls ==
    gen.pc = "returned" =>
        LET N == Len(gen.texts)
            size == Min(gen.batch_size, BatchCap)
            n == Len(gen.calls)
        IN /\ n = (N + size - 1) \div size
           /\ \A k \in 1..n :
                /\ Len(gen.calls[k]) <= size
                /\ gen.calls[k]
                      = SubSeq(gen.texts, (k - 1) * size + 1, Min(k * size, N))
           /\ gen.delays = IF n = 0 THEN 0 ELSE n - 1
           /\ N = 0 => gen.calls = <<>> /\ gen.all_embeddings = <<>>

\* A call returned after three or more backend calls, a delay before each
\* but the first.
C26_Witness ==
    /\ gen.pc = "returned"
    /\ Len(gen.calls) >= 3
    /\ gen.delays >= 2

\* ============================================ normalisation and the merge
\* The middle of hybrid_search on its own: two candidate sets, as chunk_id
\* -> raw score (a lexical candidate matches the query, so its rank is above
\* 0), and a semantic weight in tenths.
ScoreInit ==
    /\ call \in [semantic_results :
                    UNION {[I -> {Raw(v) : v \in Sims}] :
                              I \in SUBSET (1..NumCandidates)},
                 bm25_results :
                    UNION {[I -> {Raw(v) : v \in Ranks \ {0}}] :
                              I \in SUBSET (1..NumCandidates)},
                 semantic_weight : {0, 3, 10}]
    /\ result = NoResult
    /\ settings = [SEMANTIC_SEARCH_RATIO |-> 0, RELEVANCE_THRESHOLD |-> 0]
    /\ corpus = <<>>

\* semantic_normalized = _normalize_scores(semantic_results), the same for
\* the lexical set, then _merge_results(semantic_normalized,
\* bm25_normalized, semantic_ratio, bm25_ratio) with bm25_ratio = 1.0 -
\* semantic_ratio.
normalize_and_merge ==
    /\ result = NoResult
    /\ LET semantic_normalized == _normalize_scores(call.semantic_results)
           bm25_normalized == _normalize_scores(call.bm25_results)
       IN result' = [semantic_normalized |-> semantic_normalized,
                     bm25_normalized |-> bm25_normalized,
                     merged |-> _merge_results(semantic_normalized,
                                               bm25_normalized,
                                               call.semantic_weight,
                                               10 - call.semantic_weight)]
    /\ UNCHANGED <<settings, corpus, call>>
    /\ UNCHANGED <<ingestVars, textVars>>

InitScore == IngestInit /\ ScoreInit /\ TextIdle
SpecScore == InitScore /\ [][normalize_and_merge]_vars

\* The normalised score of chunk x on one side, 0 when the side does not
\* hold the chunk.
SideScore(normalized, x) ==
    IF x \in DOMAIN normalized THEN normalized[x] ELSE 0

\* C27: the merged set holds each chunk id of the union of the semantic and
\* the lexical candidates exactly once; its combined score is semanticWeight
\* * normalizedSemantic + (1 - semanticWeight) * normalizedLexical, a missing
\* side counting 0; and both component scores are carried on the result
\* unchanged.
C27_Merge ==
    result # NoResult =>
        LET merged == result.merged
            w == call.semantic_weight
        IN /\ DOMAIN merged
                = DOMAIN call.semantic_results \cup DOMAIN call.bm25_results
           /\ \A x \in DOMAIN merged :
                LET ss == SideScore(result.semantic_normalized, x)
                    bs == SideScore(result.bm25_normalized, x)
                IN /\ merged[x].chunk_id = x
                   /\ merged[x].semantic_score = ss
                   /\ merged[x].bm25_score = bs
                   /\ 10 * merged[x].score = w * ss + (10 - w) * bs

\* A merge of two overlapping sets: a chunk of both sides, a chunk of the
\* semantic side only and a chunk of the lexical side only, under a weight
\* strictly between 0 and 1.
C27_Witness ==
    /\ result # NoResult
    /\ call.semantic_weight = 3
    /\ \E x, y, z \in DOMAIN result.merged :
        /\ x \in DOMAIN call.semantic_results \cap DOMAIN call.bm25_results
        /\ y \in DOMAIN call.semantic_results \ DOMAIN call.bm25_results
        /\ z \in DOMAIN call.bm25_results \ DOMAIN call.semantic_results
        /\ result.merged[x].score > result.merged[y].score
        /\ result.merged[y].score > 0

\* One candidate set before and after _normalize_scores.
Normalized(raw, normalized) ==
    LET ids == DOMAIN raw
        top == SetMax({raw[x] : x \in ids})
        bottom == SetMin({raw[x] : x \in ids})
    IN /\ DOMAIN normalized = ids
       /\ ids # {} =>
            /\ \A x \in ids : 0 <= normalized[x] /\ normalized[x] <= One
            /\ \A x \in ids : raw[x] = top => normalized[x] = One
            /\ top # bottom =>
                  /\ \A x \in ids : raw[x] = bottom => normalized[x] = 0
                  /\ \A x, y \in ids :
                        raw[x] < raw[y] => normalized[x] < normalized[y]
            /\ top = bottom => \A x \in ids : normalized[x] = One

\* C28: for each candidate set taken on its own, _normalize_scores gives
\* every entry a score in [0, 1] and the entry of maximum raw score 1; when
\* the raw scores are not all equal the entry of minimum raw score gets 0
\* and the order is kept; when they are all equal (a set of one entry
\* included) every entry gets 1.0; an empty set is returned as it is.
C28_Normalization ==
    result # NoResult =>
        /\ Normalized(call.semantic_results, result.semantic_normalized)
        /\ Normalized(call.bm25_results, result.bm25_normalized)

\* The semantic set has three different scores, the lexical set two entries
\* of one score.
C28_Witness ==
    /\ result # NoResult
    /\ Cardinality({call.semantic_results[x] :
                        x \in DOMAIN call.semantic_results}) = 3
    /\ Cardinality(DOMAIN call.bm25_results) = 2
    /\ Cardinality({call.bm25_results[x] :
                        x \in DOMAIN call.bm25_results}) = 1

\* ------------------------------------------- claims: the returned sequence
\* C29: for every call of hybrid_search with top_k >= 1, on the blended path
\* and on the lexical-only fallback path, the returned sequence has at most
\* top_k results, holds no chunk id twice and is in order of non-increasing
\* score.
C29_ResultSequence ==
    call.embedding \in {"ok", "throttled"} =>
        /\ Len(Items) <= call.top_k
        /\ \A i, j \in 1..Len(Items) :
              i < j => /\ Items[i].chunk_id # Items[j].chunk_id
                       /\ Items[i].score >= Items[j].score

\* A call returned top_k = 2 results of different scores out of more
\* chunks in scope than that.
C29_Witness ==
    /\ call.embedding \in {"ok", "throttled"}
    /\ call.top_k = 2
    /\ Len(Items) = 2
    /\ Items[1].score > Items[2].score
    /\ Cardinality(InScope(call.user_id)) > 2

\* The semantic weight of the call in tenths: the semantic_ratio argument,
\* or the configured ratio when none is passed.
SemanticWeight ==
    IF call.semantic_ratio.given THEN call.semantic_ratio.value
    ELSE settings.SEMANTIC_SEARCH_RATIO

\* The call is a search of an owner who has a chunk of a completed document,
\* the query was embedded, and the semantic weight is at least the floor.
OwnerHasCompleted ==
    /\ Blended
    /\ call.top_k >= 1
    /\ call.user_id # NoUser
    /\ InScope(call.user_id) # {}
    /\ SemanticWeight >= settings.RELEVANCE_THRESHOLD

\* C30: after a document of the owner was processed to "completed" with at
\* least one chunk, hybrid_search for that owner with top_k >= 1 and a
\* semantic weight of at least the relevance floor returns a non-empty result
\* on the blended path, whatever the query: the best semantic candidate
\* normalises to 1.0, so its combined score is at least the semantic weight
\* and the floor does not remove it.
C30_NonEmpty ==
    OwnerHasCompleted =>
        /\ Len(Items) >= 1
        /\ Items[1].score >= Floor(settings.RELEVANCE_THRESHOLD)
        /\ 10 * Items[1].score >= SemanticWeight * One

\* With a floor above 0 and chunks of another document out of scope, the
\* call returned the best semantic candidate of the owner's document.
C30_Witness ==
    /\ OwnerHasCompleted
    /\ settings.RELEVANCE_THRESHOLD > 0
    /\ InScope(call.user_id) # ChunkIds
    /\ \E i \in 1..Len(Items) :
        /\ Items[i].semantic_score = One
        /\ \A x \in InScope(call.user_id) : SimOf(Items[i].chunk_id) >= SimOf(x)

====
